---- MODULE Spec2Model ----
(***************************************************************************)
(* Model of package astpos (src/astpos/astpos.go): RewritePositions walks  *)
(* a go/ast file, assigns every node a synthetic position from one cursor  *)
(* and records line starts in a token.File.                                *)
(*                                                                         *)
(* The recursion of astPositioner.down is unfolded on an explicit stack of *)
(* pending steps ("stack"): one step is one primitive of the source        *)
(* (n.X = pc(), move, newline, the parts of traverseList, handleComment,   *)
(* a branch on the state).  Nodes are records; a node is identified by its *)
(* path from the root (a sequence of field names and list indices), which  *)
(* plays the role of the Go pointer.  All position fields live in "posn",  *)
(* keyed by <<path, field>>.                                               *)
(***************************************************************************)
EXTENDS Integers, Sequences, FiniteSets, TLC

VARIABLES
  root,            \* astPositioner.root: the input tree (shape and attributes)
  posn,            \* every token.Pos field of every node, <<path, field>> -> value
  p,               \* astPositioner.p, the position counter
  lines,           \* token.File.lines: line offsets (position - base)
  listSizeStack,   \* astPositioner.listSizeStack
  listIndexStack,  \* astPositioner.listIndexStack
  inStruct,        \* astPositioner.inStruct
  comments,        \* astPositioner.comments (pointers = paths of the groups)
  stack,           \* the pending steps of the run (the Go call stack, unfolded)
  phase,           \* "new" after newPositioner, "run" inside positionTokens, "done"
  fileStart,       \* root.FileStart
  fileEnd,         \* root.FileEnd
  rootComments,    \* root.Comments
  log,             \* history: the observable assignments, in order
  firstRun         \* history: what an earlier call of RewritePositions on this
                   \* tree left behind (NoRun before a second call)

vars == <<root, posn, p, lines, listSizeStack, listIndexStack, inStruct,
          comments, stack, phase, fileStart, fileEnd, rootComments, log,
          firstRun>>

(***************************************************************************)
(* Bounds of the input space.                                              *)
(***************************************************************************)
MaxElts == 4
MaxDocLines == 2
MaxFields == 2

NoPos == 0

\* fset.AddFile("x.go", 1, maxInt-2): base and size of the token.File
\* (size is maxInt-2 of a 32-bit int here; the guard of AddLine never fails
\* below it).
fileBase == 1
fileSize == 2147483645

(***************************************************************************)
(* Nodes.  Every constructor takes the input values of the optional        *)
(* position fields the code branches on; every other position field is     *)
(* unset (NoPos) on input.                                                 *)
(***************************************************************************)
NilNode == [kind |-> "nil"]

Comment(text) == [kind |-> "Comment", Text |-> text, Slash |-> NoPos]

CommentGroup(texts) ==
  [kind |-> "CommentGroup", List |-> [i \in 1..Len(texts) |-> Comment(texts[i])]]

Ident(name) == [kind |-> "Ident", Name |-> name, NamePos |-> NoPos]

BasicLit(value) == [kind |-> "BasicLit", Value |-> value, ValuePos |-> NoPos]

CompositeLit(type, elts) ==
  [kind |-> "CompositeLit", Type |-> type, Elts |-> elts,
   Lbrace |-> NoPos, Rbrace |-> NoPos]

\* A channel type whose Begin and Arrow hold the given input positions.
ChanType(begin, arrow, value) ==
  [kind |-> "ChanType", Begin |-> begin, Arrow |-> arrow, Value |-> value]

KeyValueExpr(key, value) ==
  [kind |-> "KeyValueExpr", Key |-> key, Value |-> value, Colon |-> NoPos]

CallExpr(fun, args, ellipsis) ==
  [kind |-> "CallExpr", Fun |-> fun, Args |-> args,
   Lparen |-> NoPos, Ellipsis |-> ellipsis, Rparen |-> NoPos]

StarExpr(x) == [kind |-> "StarExpr", X |-> x, Star |-> NoPos]

Field(doc, names, type) ==
  [kind |-> "Field", Doc |-> doc, Names |-> names, Type |-> type]

FieldList(opening, list, closing) ==
  [kind |-> "FieldList", Opening |-> opening, List |-> list, Closing |-> closing]

StructType(fields) ==
  [kind |-> "StructType", Fields |-> fields, Struct |-> NoPos]

FuncType(params, results) ==
  [kind |-> "FuncType", Params |-> params, Results |-> results, Func |-> NoPos]

BlockStmt(list) ==
  [kind |-> "BlockStmt", List |-> list, Lbrace |-> NoPos, Rbrace |-> NoPos]

ExprStmt(x) == [kind |-> "ExprStmt", X |-> x]

EmptyStmt(implicit) ==
  [kind |-> "EmptyStmt", Implicit |-> implicit, Semicolon |-> NoPos]

AssignStmt(lhs, tok, rhs) ==
  [kind |-> "AssignStmt", Lhs |-> lhs, Tok |-> tok, Rhs |-> rhs, TokPos |-> NoPos]

ValueSpec(doc, names, type, values) ==
  [kind |-> "ValueSpec", Doc |-> doc, Names |-> names, Type |-> type,
   Values |-> values]

TypeSpec(doc, name, typeParams, assign, type) ==
  [kind |-> "TypeSpec", Doc |-> doc, Name |-> name, TypeParams |-> typeParams,
   Assign |-> assign, Type |-> type]

ImportSpec(doc, name, path) ==
  [kind |-> "ImportSpec", Doc |-> doc, Name |-> name, Path |-> path,
   EndPos |-> NoPos]

GenDecl(doc, tok, lparen, specs, rparen) ==
  [kind |-> "GenDecl", Doc |-> doc, Tok |-> tok, Specs |-> specs,
   TokPos |-> NoPos, Lparen |-> lparen, Rparen |-> rparen]

FuncDecl(doc, recv, name, type, body) ==
  [kind |-> "FuncDecl", Doc |-> doc, Recv |-> recv, Name |-> name,
   Type |-> type, Body |-> body]

File(doc, name, decls) ==
  [kind |-> "File", Doc |-> doc, Name |-> name, Decls |-> decls,
   Package |-> NoPos]

IsNil(n) == n.kind = "nil"

(***************************************************************************)
(* The token.Pos fields of each node kind (go/ast), in declaration order.  *)
(***************************************************************************)
PosFields(n) ==
  CASE n.kind = "Comment"      -> <<"Slash">>
    [] n.kind = "Ident"        -> <<"NamePos">>
    [] n.kind = "BasicLit"     -> <<"ValuePos">>
    [] n.kind = "CompositeLit" -> <<"Lbrace", "Rbrace">>
    [] n.kind = "KeyValueExpr" -> <<"Colon">>
    [] n.kind = "CallExpr"     -> <<"Lparen", "Ellipsis", "Rparen">>
    [] n.kind = "StarExpr"     -> <<"Star">>
    [] n.kind = "ChanType"     -> <<"Begin", "Arrow">>
    [] n.kind = "FieldList"    -> <<"Opening", "Closing">>
    [] n.kind = "StructType"   -> <<"Struct">>
    [] n.kind = "FuncType"     -> <<"Func">>
    [] n.kind = "BlockStmt"    -> <<"Lbrace", "Rbrace">>
    [] n.kind = "EmptyStmt"    -> <<"Semicolon">>
    [] n.kind = "AssignStmt"   -> <<"TokPos">>
    [] n.kind = "TypeSpec"     -> <<"Assign">>
    [] n.kind = "ImportSpec"   -> <<"EndPos">>
    [] n.kind = "GenDecl"      -> <<"TokPos", "Lparen", "Rparen">>
    [] n.kind = "File"         -> <<"Package">>
    [] OTHER                   -> <<>>

\* One child slot of a node: the child and its path.
One(n, at, f) == << [n |-> n[f], at |-> Append(at, f)] >>

\* The children held in the slice field f, each with its path.
Many(n, at, f) ==
  [i \in 1..Len(n[f]) |-> [n |-> n[f][i], at |-> at \o <<f, ToString(i)>>]]

\* The children of a node in the order ast.Walk visits them (nil children
\* are skipped by Walk for single slots; a slice may hold a nil element).
Slots(n, at) ==
  CASE n.kind = "CommentGroup" -> Many(n, at, "List")
    [] n.kind = "CompositeLit" -> One(n, at, "Type") \o Many(n, at, "Elts")
    [] n.kind = "KeyValueExpr" -> One(n, at, "Key") \o One(n, at, "Value")
    [] n.kind = "CallExpr"     -> One(n, at, "Fun") \o Many(n, at, "Args")
    [] n.kind = "StarExpr"     -> One(n, at, "X")
    [] n.kind = "ChanType"     -> One(n, at, "Value")
    [] n.kind = "Field"        -> One(n, at, "Doc") \o Many(n, at, "Names")
                                    \o One(n, at, "Type")
    [] n.kind = "FieldList"    -> Many(n, at, "List")
    [] n.kind = "StructType"   -> One(n, at, "Fields")
    [] n.kind = "FuncType"     -> One(n, at, "Params") \o One(n, at, "Results")
    [] n.kind = "BlockStmt"    -> Many(n, at, "List")
    [] n.kind = "ExprStmt"     -> One(n, at, "X")
    [] n.kind = "AssignStmt"   -> Many(n, at, "Lhs") \o Many(n, at, "Rhs")
    [] n.kind = "ValueSpec"    -> One(n, at, "Doc") \o Many(n, at, "Names")
                                    \o One(n, at, "Type") \o Many(n, at, "Values")
    [] n.kind = "TypeSpec"     -> One(n, at, "Doc") \o One(n, at, "Name")
                                    \o One(n, at, "TypeParams")
                                    \o One(n, at, "Type")
    [] n.kind = "ImportSpec"   -> One(n, at, "Doc") \o One(n, at, "Name")
                                    \o One(n, at, "Path")
    [] n.kind = "GenDecl"      -> One(n, at, "Doc") \o Many(n, at, "Specs")
    [] n.kind = "FuncDecl"     -> One(n, at, "Doc") \o One(n, at, "Recv")
                                    \o One(n, at, "Name") \o One(n, at, "Type")
                                    \o One(n, at, "Body")
    [] n.kind = "File"         -> One(n, at, "Doc") \o One(n, at, "Name")
                                    \o Many(n, at, "Decls")
    [] OTHER                   -> <<>>

Kids(n, at) == SelectSeq(Slots(n, at), LAMBDA c : ~IsNil(c.n))


Range(s) == {s[i] : i \in DOMAIN s}

RECURSIVE NodesOf(_, _)
\* Every node reachable from n, with its path.
NodesOf(n, at) ==
  {[n |-> n, at |-> at]}
    \cup UNION {NodesOf(c.n, c.at) : c \in Range(Kids(n, at))}

\* The position fields of the tree under r with their input values.
InputPosn(r) ==
  LET nodes == NodesOf(r, <<>>)
      keys  == UNION {{<<x.at, f>> : f \in Range(PosFields(x.n))} : x \in nodes}
      node(k) == (CHOOSE x \in nodes : x.at = k[1]).n
  IN  [k \in keys |-> node(k)[k[2]]]

(***************************************************************************)
(* token.File (go/token), as far as the positioner uses it.                *)
(***************************************************************************)
\* File.AddLine(offset): ignored unless larger than the last line offset
\* and smaller than the file size.
AddLine(ls, offset) ==
  IF (Len(ls) = 0 \/ ls[Len(ls)] < offset) /\ offset < fileSize
    THEN Append(ls, offset)
    ELSE ls

\* File.Line(pos): the 1-based line of the offset pos - base.
Line(ls, pos) == Cardinality({i \in DOMAIN ls : ls[i] <= pos - fileBase})

\* File.LineStart(line): the position of the first character of the line.
LineStart(ls, line) == fileBase + ls[line]

(***************************************************************************)
(* The list-context stack.                                                 *)
(***************************************************************************)
listSize ==
  IF Len(listSizeStack) = 0 THEN -1 ELSE listSizeStack[Len(listSizeStack)]

index ==
  IF Len(listIndexStack) = 0 THEN -1 ELSE listIndexStack[Len(listIndexStack)]

(***************************************************************************)
(* Pending steps.                                                          *)
(***************************************************************************)
Trav(n, at)         == [op |-> "traverse", n |-> n, at |-> at]
TravList(nodes, at) == [op |-> "traverseList", nodes |-> nodes, at |-> at]
ListInc(i)          == [op |-> "listInc", i |-> i]
ListPop(i)          == [op |-> "listPop", i |-> i]
SetPos(at, f)       == [op |-> "set", at |-> at, f |-> f]
MoveN(k)            == [op |-> "move", k |-> k]
Move(t)             == MoveN(Len(t))
MoveStr(s)          == MoveN(Len(s))
NewlineT            == [op |-> "newline"]
SetInStruct(b)      == [op |-> "inStruct", b |-> b]
HandleComment(c, at) == [op |-> "handleComment", c |-> c, at |-> at]
If(cond, then)      == [op |-> "if", cond |-> cond, then |-> then]

\* Conditions the code evaluates on the state it finds at that point.
NonZero(at, f)      == [c |-> "nonzero", at |-> at, f |-> f]
InStructC           == [c |-> "inStruct"]
TrailingC(isMulti)  == [c |-> "trailing", isMulti |-> isMulti]
KeyValueC(ok)       == [c |-> "keyvalue", ok |-> ok]
OffLineStartC       == [c |-> "offLineStart"]

\* The tokens the code moves over, by token.Token.String().
LBRACE == "{"
RBRACE == "}"
LPAREN == "("
RPAREN == ")"
COLON == ":"
ASSIGN == "="
ELLIPSIS == "..."
SEMICOLON == ";"
PACKAGE == "package"
FUNC == "func"
STRUCT == "struct"
CHAN == "chan"
ARROW == "<-"

(***************************************************************************)
(* astPositioner.down, one definition per case of its switch: the steps    *)
(* the case performs, and whether it lets ast.Inspect descend (the return  *)
(* value).                                                                 *)
(***************************************************************************)
Done(prog) == [prog |-> prog, descend |-> FALSE]
Descend(prog) == [prog |-> prog, descend |-> TRUE]

down_BasicLit(n, at) ==
  Descend(<<SetPos(at, "ValuePos"), MoveStr(n.Value)>>)

down_BlockStmt(n, at) ==
  Done(<<SetPos(at, "Lbrace"), Move(LBRACE), NewlineT,
         TravList(n.List, Append(at, "List")),
         SetPos(at, "Rbrace"), Move(RBRACE), NewlineT>>)

down_AssignStmt(n, at) ==
  Done(<<TravList(n.Lhs, Append(at, "Lhs")),
         SetPos(at, "TokPos"), Move(n.Tok),
         TravList(n.Rhs, Append(at, "Rhs"))>>)

down_CallExpr(n, at) ==
  Done(<<Trav(n.Fun, Append(at, "Fun")),
         SetPos(at, "Lparen"),
         TravList(n.Args, Append(at, "Args")),
         If(NonZero(at, "Ellipsis"), <<SetPos(at, "Ellipsis"), Move(ELLIPSIS)>>),
         SetPos(at, "Rparen")>>)

\* A channel rule that moves over the arrow before it assigns Arrow.
down_ChanType_arrowAfterMove(n, at) ==
  LET arrowFirst == posn[<<at, "Begin">>] = posn[<<at, "Arrow">>]
      arrow(isFirst) ==
        IF isFirst
          THEN <<If(NonZero(at, "Arrow"), <<Move(ARROW), SetPos(at, "Arrow")>>)>>
          ELSE <<>>
  IN  Descend(<<SetPos(at, "Begin")>> \o arrow(arrowFirst) \o <<Move(CHAN)>>
                \o arrow(~arrowFirst))

\* The arrow takes its place before or after the keyword according to the
\* positions found on input (arrowFirst), and only if it was set on input.
down_ChanType(n, at) ==
  LET arrowFirst == posn[<<at, "Begin">>] = posn[<<at, "Arrow">>]
      arrow(isFirst) ==
        IF isFirst
          THEN <<If(NonZero(at, "Arrow"), <<SetPos(at, "Arrow"), Move(ARROW)>>)>>
          ELSE <<>>
  IN  Descend(<<SetPos(at, "Begin")>> \o arrow(arrowFirst) \o <<Move(CHAN)>>
                \o arrow(~arrowFirst))

IsCompositeLit(n) == n.kind = "CompositeLit"

\* hasNestedComposite
hasNestedComposite(composite) ==
  \E i \in DOMAIN composite.Elts :
    LET child == composite.Elts[i] IN
      \/ IsCompositeLit(child)
      \/ child.kind = "KeyValueExpr" /\ IsCompositeLit(child.Value)

\* hasNestedKeyValue
hasNestedKeyValue(composite) ==
  \E i \in DOMAIN composite.Elts : composite.Elts[i].kind = "KeyValueExpr"

\* A literal that counts as long from three elements on.
isMulti_three(n) == Len(n.Elts) >= 3

isMulti(n) == Len(n.Elts) >= 4

isSingle(n) == Len(n.Elts) = 1

\* A test that forgets the exemption of the single element.
doNewlines_anyKeyValue(n) ==
  hasNestedComposite(n) \/ hasNestedKeyValue(n) \/ isMulti(n)

doNewlines(n) ==
  hasNestedComposite(n) \/ (hasNestedKeyValue(n) /\ ~isSingle(n)) \/ isMulti(n)

down_CompositeLit(n, at) ==
  Done(<<Trav(n.Type, Append(at, "Type")),
         SetPos(at, "Lbrace"), Move(LBRACE)>>
       \o (IF doNewlines(n) THEN <<NewlineT>> ELSE <<>>)
       \o <<TravList(n.Elts, Append(at, "Elts"))>>
       \o (IF doNewlines(n) THEN <<NewlineT>> ELSE <<>>)
       \o <<SetPos(at, "Rbrace"), Move(RBRACE),
            If(TrailingC(isMulti(n)), <<NewlineT>>)>>)

down_EmptyStmt(n, at) ==
  Descend(<<SetPos(at, "Semicolon")>>
          \o (IF ~n.Implicit THEN <<Move(SEMICOLON)>> ELSE <<>>))

down_Field(n, at) ==
  Descend(<<HandleComment(n.Doc, Append(at, "Doc"))>>)

down_FieldList(n, at) ==
  Done(<<If(NonZero(at, "Opening"),
            <<SetPos(at, "Opening"), MoveN(1), If(InStructC, <<NewlineT>>)>>),
         TravList(n.List, Append(at, "List")),
         If(NonZero(at, "Closing"),
            <<SetPos(at, "Closing"), MoveN(1),
              If(InStructC, <<NewlineT, NewlineT>>)>>)>>)

down_File(n, at) ==
  Done(<<HandleComment(n.Doc, Append(at, "Doc")),
         SetPos(at, "Package"), Move(PACKAGE), MoveStr(" "),
         Trav(n.Name, Append(at, "Name")),
         NewlineT,
         TravList(n.Decls, Append(at, "Decls"))>>)

down_FuncDecl(n, at) ==
  Done(<<HandleComment(n.Doc, Append(at, "Doc"))>>
       \o (IF ~IsNil(n.Recv) THEN <<Trav(n.Recv, Append(at, "Recv"))>> ELSE <<>>)
       \o <<Trav(n.Name, Append(at, "Name")),
            Trav(n.Type, Append(at, "Type")),
            Trav(n.Body, Append(at, "Body")),
            NewlineT>>)

down_FuncType(n, at) ==
  Descend(<<SetPos(at, "Func"), Move(FUNC)>>)

down_GenDecl(n, at) ==
  Done(<<HandleComment(n.Doc, Append(at, "Doc")),
         SetPos(at, "TokPos"), Move(n.Tok),
         If(NonZero(at, "Lparen"),
            <<SetPos(at, "Lparen"), Move(LPAREN), NewlineT>>),
         TravList(n.Specs, Append(at, "Specs")),
         If(NonZero(at, "Rparen"),
            <<SetPos(at, "Rparen"), Move(RPAREN), NewlineT>>)>>)

down_Ident(n, at) ==
  Descend(<<SetPos(at, "NamePos"), MoveStr(n.Name)>>)

down_ImportSpec(n, at) ==
  Descend(<<HandleComment(n.Doc, Append(at, "Doc"))>>)

down_KeyValueExpr(n, at) ==
  Done(<<Trav(n.Key, Append(at, "Key")),
         SetPos(at, "Colon"), Move(COLON),
         Trav(n.Value, Append(at, "Value")),
         If(KeyValueC(IsCompositeLit(n.Value)), <<NewlineT>>)>>)

down_StarExpr(n, at) ==
  Descend(<<SetPos(at, "Star"), MoveStr("*")>>)

down_StructType(n, at) ==
  Done(<<SetPos(at, "Struct"), Move(STRUCT),
         SetInStruct(TRUE),
         Trav(n.Fields, Append(at, "Fields")),
         SetInStruct(FALSE)>>)

\* The case tests n.Assign when it is reached, right after handleComment,
\* which changes no position field of the spec: the test reads the value
\* the field has when the case starts.
down_TypeSpec(n, at) ==
  IF posn[<<at, "Assign">>] = NoPos
    THEN Descend(<<HandleComment(n.Doc, Append(at, "Doc"))>>)
    ELSE Done(<<HandleComment(n.Doc, Append(at, "Doc")),
                Trav(n.Name, Append(at, "Name")),
                Trav(n.TypeParams, Append(at, "TypeParams")),
                SetPos(at, "Assign"), Move(ASSIGN),
                Trav(n.Type, Append(at, "Type"))>>)

\* Kinds without a case (CommentGroup, Comment, ExprStmt, ValueSpec, ...)
down_default(n, at) == Descend(<<>>)

down(n, at) ==
  CASE n.kind = "AssignStmt"   -> down_AssignStmt(n, at)
    [] n.kind = "BasicLit"     -> down_BasicLit(n, at)
    [] n.kind = "BlockStmt"    -> down_BlockStmt(n, at)
    [] n.kind = "CallExpr"     -> down_CallExpr(n, at)
    [] n.kind = "ChanType"     -> down_ChanType(n, at)
    [] n.kind = "CompositeLit" -> down_CompositeLit(n, at)
    [] n.kind = "EmptyStmt"    -> down_EmptyStmt(n, at)
    [] n.kind = "Field"        -> down_Field(n, at)
    [] n.kind = "FieldList"    -> down_FieldList(n, at)
    [] n.kind = "File"         -> down_File(n, at)
    [] n.kind = "FuncDecl"     -> down_FuncDecl(n, at)
    [] n.kind = "FuncType"     -> down_FuncType(n, at)
    [] n.kind = "GenDecl"      -> down_GenDecl(n, at)
    [] n.kind = "Ident"        -> down_Ident(n, at)
    [] n.kind = "ImportSpec"   -> down_ImportSpec(n, at)
    [] n.kind = "KeyValueExpr" -> down_KeyValueExpr(n, at)
    [] n.kind = "StarExpr"     -> down_StarExpr(n, at)
    [] n.kind = "StructType"   -> down_StructType(n, at)
    [] n.kind = "TypeSpec"     -> down_TypeSpec(n, at)
    [] OTHER                   -> down_default(n, at)


(***************************************************************************)
(* Input trees.                                                            *)
(***************************************************************************)
\* A documentation comment of k lines (nil when k = 0).
Doc(k) ==
  IF k = 0 THEN NilNode
  ELSE CommentGroup([i \in 1..k |-> "// doc " \o ToString(i)])

DocLines == 0..MaxDocLines

\* Elements of a composite literal: a scalar, a key-value pair with a scalar
\* value, a nested literal, a key-value pair whose value is a literal.
EltKinds == {"s", "k", "c", "kc"}

Elt(kind) ==
  CASE kind = "s"  -> BasicLit("1")
    [] kind = "k"  -> KeyValueExpr(Ident("a"), BasicLit("22"))
    [] kind = "c"  -> CompositeLit(NilNode, <<BasicLit("3")>>)
    [] kind = "kc" -> KeyValueExpr(Ident("b"),
                        CompositeLit(NilNode, <<BasicLit("4"), BasicLit("5")>>))

EltSeqs == UNION {[1..k -> EltKinds] : k \in 0..MaxElts}

Lit(kinds) == CompositeLit(Ident("T"), [i \in DOMAIN kinds |-> Elt(kinds[i])])

\* var x = <value>
VarDecl(doc, value) ==
  GenDecl(doc, "var", NoPos,
          <<ValueSpec(NilNode, <<Ident("x")>>, NilNode, <<value>>)>>, NoPos)

\* var ( x = 0 ), the value spec documented
VarGroup(doc, specDoc, d) ==
  GenDecl(doc, "var", d,
          <<ValueSpec(specDoc, <<Ident("x")>>, NilNode, <<BasicLit("0")>>)>>, d)

LitFiles ==
  {File(NilNode, Ident("pkg"), <<VarDecl(NilNode, Lit(kinds))>>) : kinds \in EltSeqs}

\* The input value of the optional delimiter fields (FieldList.Opening and
\* Closing, GenDecl.Lparen and Rparen, TypeSpec.Assign, CallExpr.Ellipsis):
\* unset, or set to some position by whoever built the tree.
Delims == {NoPos, 1}

FieldKinds == {"plain", "doc", "struct", "func"}

StructField(kind, d) ==
  CASE kind = "plain"  -> Field(NilNode, <<Ident("a")>>, Ident("int"))
    [] kind = "doc"    -> Field(Doc(1), <<Ident("b")>>, Ident("int"))
    [] kind = "struct" ->
         Field(NilNode, <<Ident("s")>>,
               StructType(FieldList(d,
                 <<Field(NilNode, <<Ident("c")>>, Ident("int"))>>, d)))
    [] kind = "func"   ->
         Field(NilNode, <<Ident("f")>>,
               FuncType(FieldList(d, <<>>, d), NilNode))

FieldSeqs == UNION {[1..k -> FieldKinds] : k \in 0..MaxFields}

\* type T struct { ... }
StructDecl(doc, kinds, d) ==
  GenDecl(NilNode, "type", NoPos,
    <<TypeSpec(doc, Ident("T"), NilNode, NoPos,
        StructType(FieldList(d, [i \in DOMAIN kinds |-> StructField(kinds[i], d)], d)))>>,
    NoPos)

StructFiles ==
  {File(NilNode, Ident("pkg"), <<StructDecl(Doc(k), kinds, d)>>) :
     k \in DocLines, kinds \in FieldSeqs, d \in Delims}

\* The type parameter list [P any]
TypeParams(d) ==
  FieldList(d, <<Field(NilNode, <<Ident("P")>>, Ident("any"))>>, d)

\* import/type declarations, parenthesized or not, with documented specs
\* (type specs with and without type parameters);
\* a parenthesized var group whose value spec is documented
SpecSeqs(tok, j, d) ==
  LET spec == IF tok = "import"
                THEN ImportSpec(Doc(j), Ident("f"), BasicLit("\"fmt\""))
                ELSE TypeSpec(Doc(j), Ident("T"), NilNode, d,
                              StructType(FieldList(d, <<>>, d)))
      generic == TypeSpec(Doc(j), Ident("T"), TypeParams(d), d, Ident("int"))
  IN  IF tok = "import"
        THEN {<<spec>>, <<spec, spec>>}
        ELSE {<<spec>>, <<spec, spec>>, <<generic>>, <<spec, generic>>}

GenDeclFiles ==
  {File(NilNode, Ident("pkg"), <<GenDecl(Doc(k), x[1], x[2], x[3], x[2])>>) :
     k \in DocLines,
     x \in UNION {{<<tok, d, specs>> : specs \in SpecSeqs(tok, j, d)} :
                    tok \in {"import", "type"}, j \in DocLines, d \in Delims}}
  \cup
  {File(NilNode, Ident("pkg"), <<VarGroup(Doc(k), Doc(j), 1)>>) :
     k \in DocLines, j \in DocLines}

\* statement lists of a function body
StmtLists(d) ==
  { <<>>,
    <<ExprStmt(CallExpr(Ident("g"), <<>>, NoPos))>>,
    <<ExprStmt(CallExpr(Ident("g"), <<Ident("a"), Ident("b")>>, d))>>,
    <<ExprStmt(CallExpr(Ident("g"), <<Lit(<<"s", "s">>)>>, NoPos))>>,
    <<AssignStmt(<<Ident("x")>>, "=", <<BasicLit("1")>>),
      EmptyStmt(TRUE), EmptyStmt(FALSE)>>,
    <<AssignStmt(<<Ident("x")>>, ":=", <<Lit(<<>>)>>)>>,
    <<AssignStmt(<<Ident("x"), Ident("y")>>, "=", <<Lit(<<"s">>), BasicLit("1")>>)>>,
    <<NilNode, ExprStmt(Ident("a")), NilNode, ExprStmt(Ident(""))>> }

Recvs(d) ==
  {NilNode,
   FieldList(d, <<Field(NilNode, <<Ident("m")>>, StarExpr(Ident("T")))>>, d)}

\* func (m *T) fn() { ... }, alone or after a declaration that leaves the
\* cursor in the middle of a line
FuncFiles ==
  {File(Doc(x[1]), Ident("pkg"),
        x[2] \o <<FuncDecl(Doc(x[3]), x[4], Ident("fn"),
                           FuncType(FieldList(x[5], <<>>, x[5]), NilNode),
                           BlockStmt(x[6]))>>) :
     x \in UNION {DocLines \X {<<>>, <<VarDecl(NilNode, BasicLit("0"))>>}
                    \X DocLines \X Recvs(d) \X {d} \X StmtLists(d) : d \in Delims}}

\* The input values of <<Begin, Arrow>> of a channel type: built by hand
\* (both unset, or only one set), or as the parser leaves them for
\* chan int, <-chan int and chan<- int.
ChanPos == {<<NoPos, NoPos>>, <<NoPos, 1>>, <<1, NoPos>>, <<1, 1>>, <<1, 5>>}

\* var c chan int, parenthesized or not
ChanDecl(begin, arrow, d) ==
  GenDecl(NilNode, "var", d,
          <<ValueSpec(NilNode, <<Ident("c")>>,
                      ChanType(begin, arrow, Ident("int")), <<>>)>>, d)

ChanFiles ==
  {File(NilNode, Ident("pkg"), <<ChanDecl(x[1], x[2], d)>>) :
     x \in ChanPos, d \in Delims}

Inputs == LitFiles \cup StructFiles \cup GenDeclFiles \cup FuncFiles \cup ChanFiles

(***************************************************************************)
(* The run.                                                                *)
(***************************************************************************)
\* No call of RewritePositions on the tree has returned yet.
NoRun == [ran |-> FALSE]

\* newPositioner(root)
Init ==
  /\ root \in Inputs
  /\ posn = InputPosn(root)
  /\ p = 1
  /\ lines = <<0>>
  /\ listSizeStack = <<>>
  /\ listIndexStack = <<>>
  /\ inStruct = FALSE
  /\ comments = <<>>
  /\ stack = <<>>
  /\ phase = "new"
  /\ fileStart = NoPos
  /\ fileEnd = NoPos
  /\ rootComments = <<>>
  /\ log = <<>>
  /\ firstRun = NoRun

Top == stack[1]
Rest == Tail(stack)
Running(op) == phase = "run" /\ stack # <<>> /\ Top.op = op

\* positionTokens, up to the call of traverse
PositionTokens ==
  /\ phase = "new"
  /\ phase' = "run"
  /\ fileStart' = 1
  /\ stack' = <<Trav(root, <<>>)>>
  /\ UNCHANGED <<firstRun, root, posn, p, lines, listSizeStack, listIndexStack, inStruct,
                 comments, fileEnd, rootComments, log>>

\* positionTokens, after traverse returned
Finish ==
  /\ phase = "run"
  /\ stack = <<>>
  /\ fileEnd' = p
  /\ rootComments' = comments
  /\ phase' = "done"
  /\ UNCHANGED <<firstRun, root, posn, p, lines, listSizeStack, listIndexStack, inStruct,
                 comments, stack, fileStart, log>>

\* traverse(nil) and down(nil): nothing happens
TraverseNil ==
  /\ Running("traverse")
  /\ IsNil(Top.n)
  /\ stack' = Rest
  /\ UNCHANGED <<firstRun, root, posn, p, lines, listSizeStack, listIndexStack, inStruct,
                 comments, phase, fileStart, fileEnd, rootComments, log>>

\* traverse(node): ast.Inspect calls down on the node and, when down returns
\* true, on its children in the order of ast.Walk
Down ==
  /\ Running("traverse")
  /\ ~IsNil(Top.n)
  /\ LET d == down(Top.n, Top.at)
         kids == Kids(Top.n, Top.at)
         walk == IF d.descend
                   THEN [i \in DOMAIN kids |-> Trav(kids[i].n, kids[i].at)]
                   ELSE <<>>
     IN  stack' = d.prog \o walk \o Rest
  /\ UNCHANGED <<firstRun, root, posn, p, lines, listSizeStack, listIndexStack, inStruct,
                 comments, phase, fileStart, fileEnd, rootComments, log>>

\* The body of the loop of traverseList for frame i: each node is traversed,
\* then the index of the frame goes up by one.
ListSteps(nodes, at, i) ==
  [k \in 1..(2 * Len(nodes)) |->
     IF k % 2 = 1
       THEN Trav(nodes[(k + 1) \div 2], Append(at, ToString((k + 1) \div 2)))
       ELSE ListInc(i)]

\* traverseList: push the frame
TraverseList ==
  /\ Running("traverseList")
  /\ listSizeStack' = Append(listSizeStack, Len(Top.nodes))
  /\ listIndexStack' = Append(listIndexStack, 0)
  /\ LET i == Len(listSizeStack) + 1
     IN  stack' = ListSteps(Top.nodes, Top.at, i) \o <<ListPop(i)>> \o Rest
  /\ UNCHANGED <<firstRun, root, posn, p, lines, inStruct, comments, phase, fileStart,
                 fileEnd, rootComments, log>>

\* traverseList: p.listIndexStack[i] += 1
ListNext ==
  /\ Running("listInc")
  /\ listIndexStack' = [listIndexStack EXCEPT ![Top.i] = @ + 1]
  /\ stack' = Rest
  /\ UNCHANGED <<firstRun, root, posn, p, lines, listSizeStack, inStruct, comments, phase,
                 fileStart, fileEnd, rootComments, log>>

\* traverseList: cut both stacks back to the frame
ListDone ==
  /\ Running("listPop")
  /\ listSizeStack' = SubSeq(listSizeStack, 1, Top.i - 1)
  /\ listIndexStack' = SubSeq(listIndexStack, 1, Top.i - 1)
  /\ stack' = Rest
  /\ UNCHANGED <<firstRun, root, posn, p, lines, inStruct, comments, phase, fileStart,
                 fileEnd, rootComments, log>>

\* n.<field> = pc()
Assign ==
  /\ Running("set")
  /\ posn' = [posn EXCEPT ![<<Top.at, Top.f>>] = p]
  /\ log' = Append(log, [e |-> "pos", at |-> Top.at, f |-> Top.f, val |-> p])
  /\ stack' = Rest
  /\ UNCHANGED <<firstRun, root, p, lines, listSizeStack, listIndexStack, inStruct,
                 comments, phase, fileStart, fileEnd, rootComments>>

\* move, moveStr, moveN
MoveCursor ==
  /\ Running("move")
  /\ p' = p + Top.k
  /\ stack' = Rest
  /\ UNCHANGED <<firstRun, root, posn, lines, listSizeStack, listIndexStack, inStruct,
                 comments, phase, fileStart, fileEnd, rootComments, log>>

\* A newline that records the line but forgets the line terminator.
Newline_noAdvance ==
  /\ Running("newline")
  /\ lines' = AddLine(lines, p)
  /\ p' = p
  /\ log' = Append(log, [e |-> "line", at |-> <<>>, f |-> "", val |-> p])
  /\ stack' = Rest
  /\ UNCHANGED <<firstRun, root, posn, listSizeStack, listIndexStack, inStruct, comments,
                 phase, fileStart, fileEnd, rootComments>>

\* newline
Newline ==
  /\ Running("newline")
  /\ lines' = AddLine(lines, p)
  /\ p' = p + 1
  /\ log' = Append(log, [e |-> "line", at |-> <<>>, f |-> "", val |-> p])
  /\ stack' = Rest
  /\ UNCHANGED <<firstRun, root, posn, listSizeStack, listIndexStack, inStruct, comments,
                 phase, fileStart, fileEnd, rootComments>>

\* p.inStruct = b
EnterLeaveStruct ==
  /\ Running("inStruct")
  /\ inStruct' = Top.b
  /\ stack' = Rest
  /\ UNCHANGED <<firstRun, root, posn, p, lines, listSizeStack, listIndexStack, comments,
                 phase, fileStart, fileEnd, rootComments, log>>

\* A test that wants another element beside the literal.
TrailingNewline_two(multi) == multi \/ listSize > 1

\* if isMulti || p.listSize() > 0   (CompositeLit)
TrailingNewline(multi) == multi \/ listSize > 0

\* if p.listSize() > 1 && !ok       (KeyValueExpr)
KeyValueNewline(ok) == listSize > 1 /\ ~ok

\* A handleComment that never forces a newline.
OffLineStart_never == FALSE

\* if lineStart != p.pc()           (handleComment)
OffLineStart == LineStart(lines, Line(lines, p)) # p

Holds(c) ==
  CASE c.c = "nonzero"      -> posn[<<c.at, c.f>>] # NoPos
    [] c.c = "inStruct"     -> inStruct
    [] c.c = "trailing"     -> TrailingNewline(c.isMulti)
    [] c.c = "keyvalue"     -> KeyValueNewline(c.ok)
    [] c.c = "offLineStart" -> OffLineStart

\* an if statement of down on the state of the positioner or of the node
Branch ==
  /\ Running("if")
  /\ stack' = (IF Holds(Top.cond) THEN Top.then ELSE <<>>) \o Rest
  /\ UNCHANGED <<firstRun, root, posn, p, lines, listSizeStack, listIndexStack, inStruct,
                 comments, phase, fileStart, fileEnd, rootComments, log>>

\* The loop of handleComment: c.Slash = pc(); moveStr(c.Text); newline()
CommentSteps(c, at) ==
  [k \in 1..(3 * Len(c.List)) |->
     LET i == (k + 2) \div 3 IN
       CASE k % 3 = 1 -> SetPos(at \o <<"List", ToString(i)>>, "Slash")
         [] k % 3 = 2 -> MoveStr(c.List[i].Text)
         [] OTHER     -> NewlineT]

\* A registration that puts the newest group first.
Register_prepend(cs, c) == <<c>> \o cs

\* p.comments = append(p.comments, c)
Register(cs, c) == Append(cs, c)

\* handleComment on a nil group returns at once
HandleCommentNil ==
  /\ Running("handleComment")
  /\ IsNil(Top.c)
  /\ stack' = Rest
  /\ UNCHANGED <<firstRun, root, posn, p, lines, listSizeStack, listIndexStack, inStruct,
                 comments, phase, fileStart, fileEnd, rootComments, log>>

\* handleComment: register the group, force a newline unless the cursor is
\* at a line start, then position the lines
HandleCommentGroup ==
  /\ Running("handleComment")
  /\ ~IsNil(Top.c)
  /\ comments' = Register(comments, Top.at)
  /\ stack' = <<If(OffLineStartC, <<NewlineT>>)>>
                \o CommentSteps(Top.c, Top.at) \o Rest
  /\ UNCHANGED <<firstRun, root, posn, p, lines, listSizeStack, listIndexStack, inStruct,
                 phase, fileStart, fileEnd, rootComments, log>>

Next ==
  \/ PositionTokens
  \/ TraverseNil
  \/ Down
  \/ TraverseList
  \/ ListNext
  \/ ListDone
  \/ Assign
  \/ MoveCursor
  \/ Newline
  \/ EnterLeaveStruct
  \/ Branch
  \/ HandleCommentNil
  \/ HandleCommentGroup
  \/ Finish

Spec == Init /\ [][Next]_vars

\* RewritePositions called once more on the tree an earlier call returned:
\* newPositioner builds a fresh positioner and a fresh file set; the tree
\* keeps the positions, FileStart, FileEnd and Comments it has.
Rerun ==
  /\ phase = "done"
  /\ firstRun = NoRun
  /\ firstRun' = [ran |-> TRUE, posn |-> posn, lines |-> lines,
               comments |-> rootComments, fileStart |-> fileStart,
               fileEnd |-> fileEnd, log |-> log]
  /\ p' = 1
  /\ lines' = <<0>>
  /\ listSizeStack' = <<>>
  /\ listIndexStack' = <<>>
  /\ inStruct' = FALSE
  /\ comments' = <<>>
  /\ stack' = <<>>
  /\ phase' = "new"
  /\ log' = <<>>
  /\ UNCHANGED <<root, posn, fileStart, fileEnd, rootComments>>

NextTwice == Next \/ Rerun

SpecTwice == Init /\ [][NextTwice]_vars

TypeOK ==
  /\ p >= 1
  /\ Len(listSizeStack) = Len(listIndexStack)


(***************************************************************************)
(* Observations on a run.                                                  *)
(***************************************************************************)
Finished == phase = "done"

IsPrefix(s, t) == Len(s) <= Len(t) /\ SubSeq(t, 1, Len(s)) = s

AllNodes == NodesOf(root, <<>>)

NodeAt(at) == (CHOOSE x \in AllNodes : x.at = at).n

\* The recorded line starts, as positions (File.LineStart of every line).
LineStarts == {LineStart(lines, i) : i \in DOMAIN lines}

Assigned(at, f) ==
  \E i \in DOMAIN log : log[i].e = "pos" /\ log[i].at = at /\ log[i].f = f

\* The place in the run where n.f (n at path at) was assigned.
EventOf(at, f) ==
  CHOOSE i \in DOMAIN log : log[i].e = "pos" /\ log[i].at = at /\ log[i].f = f

IsLineEvent(i) == i \in DOMAIN log /\ log[i].e = "line"

\* Every position field was unset when the run started.
AllUnset == \A k \in DOMAIN InputPosn(root) : InputPosn(root)[k] = NoPos

(***************************************************************************)
(* C1: after RewritePositions on a tree whose position fields were all     *)
(* unset, every mandatory position field of every reachable node is > 0,   *)
(* the delimiters of field lists and of declaration groups that need       *)
(* parentheses, TypeSpec.Assign and CallExpr.Ellipsis included.            *)
(* (ImportSpec.EndPos, which no rule of the code touches, and the arrow of *)
(* a channel type, which a bidirectional channel lacks, are left out.)     *)
(***************************************************************************)
Mandatory(n, f) ==
  /\ ~(n.kind = "ImportSpec" /\ f = "EndPos")
  /\ ~(n.kind = "ChanType" /\ f = "Arrow")
  /\ (n.kind = "GenDecl" /\ f \in {"Lparen", "Rparen"}) => Len(n.Specs) # 1

C1_AllPositive ==
  (Finished /\ AllUnset) =>
    \A x \in AllNodes : \A f \in Range(PosFields(x.n)) :
      Mandatory(x.n, f) => posn[<<x.at, f>>] > 0

(***************************************************************************)
(* C2: the cursor values handed to observable elements (position fields,   *)
(* comment lines, line starts) are strictly increasing in assignment       *)
(* order.  (Stated on neighbours of the history; < is transitive.)         *)
(***************************************************************************)
C2_StrictlyIncreasing ==
  \A i \in 1..(Len(log) - 1) : log[i].val < log[i + 1].val

(***************************************************************************)
(* C4: the comment list holds exactly the documentation groups of the      *)
(* nodes that may own one (File, GenDecl, FuncDecl, Field, ImportSpec,     *)
(* TypeSpec), each once, in the order the traversal meets their owners;    *)
(* at every step the accumulated list is a prefix of that final list and   *)
(* a step only appends to it.                                              *)
(***************************************************************************)
DocOwners == {"File", "GenDecl", "FuncDecl", "Field", "ImportSpec", "TypeSpec"}

RECURSIVE DocsInOrder(_, _), DocsOfSeq(_)
\* The documented owners below n in source order (pre-order), by the path
\* of their comment group.
DocsInOrder(n, at) ==
  (IF n.kind \in DocOwners /\ ~IsNil(n.Doc) THEN <<Append(at, "Doc")>> ELSE <<>>)
    \o DocsOfSeq(Kids(n, at))

DocsOfSeq(ks) ==
  IF ks = <<>> THEN <<>>
  ELSE DocsInOrder(Head(ks).n, Head(ks).at) \o DocsOfSeq(Tail(ks))

ExpectedComments == DocsInOrder(root, <<>>)

C4_CommentsInTraversalOrder ==
  /\ [](/\ IsPrefix(comments, ExpectedComments)
        /\ Finished => rootComments = ExpectedComments)
  /\ [][IsPrefix(comments, comments')]_vars

C4_Witness == Finished /\ Len(rootComments) >= 3

(***************************************************************************)
(* C5: every line of a registered documentation group sits on a recorded   *)
(* line start, consecutive lines of the group sit on consecutive lines,    *)
(* and the first position assigned after the group belongs to its owner    *)
(* and is the start of the line right below the last comment line.         *)
(***************************************************************************)
SlashOf(g, i) == g \o <<"List", ToString(i)>>

\* The first position assigned after event e, if any.
NextPosEvents(e) ==
  {j \in DOMAIN log :
     /\ j > e /\ log[j].e = "pos"
     /\ \A k \in (e + 1)..(j - 1) : log[k].e # "pos"}

C5_GroupOK(g) ==
  LET n == Len(NodeAt(g).List)
      ev(i) == EventOf(SlashOf(g, i), "Slash")
      at(i) == log[ev(i)].val
      owner == SubSeq(g, 1, Len(g) - 1)
  IN  \A i \in 1..n :
        Assigned(SlashOf(g, i), "Slash") =>
          /\ at(i) \in LineStarts
          /\ i > 1 => /\ at(i - 1) < at(i)
                      /\ Line(lines, at(i)) = Line(lines, at(i - 1)) + 1
          /\ i = n =>
               /\ \A j \in NextPosEvents(ev(i)) :
                    /\ Line(lines, log[j].val) = Line(lines, at(i)) + 1
                    /\ log[j].val = LineStart(lines, Line(lines, log[j].val))
                    /\ IsPrefix(owner, log[j].at)
               /\ Finished => NextPosEvents(ev(i)) # {}

C5_DocCommentLines ==
  /\ \A c \in DOMAIN comments : C5_GroupOK(comments[c])
  /\ Finished =>
       \A c \in DOMAIN comments :
         \A i \in 1..Len(NodeAt(comments[c]).List) :
           Assigned(SlashOf(comments[c], i), "Slash")

\* A two-line comment on a function that follows "var x = 0", which leaves
\* the cursor in the middle of a line.
C5_Witness ==
  /\ Finished
  /\ Len(root.Decls) = 2
  /\ <<"Decls", "2", "Doc">> \in Range(comments)
  /\ Len(root.Decls[2].Doc.List) = 2
  /\ posn[<< <<"Decls", "2", "Name">>, "NamePos" >>] > 0

(***************************************************************************)
(* C6: the line table is never empty and strictly increasing, its first    *)
(* line starts at the root's start; a newline() appends exactly one entry  *)
(* and advances the cursor by 1; nothing else changes the table.           *)
(*                                                                         *)
(* As stated, the entry a newline() records is the cursor value at the     *)
(* call.  No single unit makes that and "the first entry is the root's     *)
(* start" true together: the table holds offsets from the file base 1, so  *)
(* its first entry 0 is position 1 (the root's start), and the offset a    *)
(* newline() stores, equal in number to the cursor, is the position one    *)
(* past it, the cursor after the advance.                                  *)
(***************************************************************************)
LinesIncreasing == \A i \in 1..(Len(lines) - 1) : lines[i] < lines[i + 1]

\* The statement as given, in the unit u that turns a table entry into a
\* position (0: entries are positions, fileBase: entries are offsets).
C6_AsStated(u) ==
  /\ Len(lines') >= 1 /\ lines'[1] + u = fileStart'
  /\ IF Running("newline")
       THEN /\ Len(lines') = Len(lines) + 1
            /\ SubSeq(lines', 1, Len(lines)) = lines
            /\ lines'[Len(lines')] + u = p
            /\ p' = p + 1
       ELSE lines' = lines

C6_Original == [][\E u \in {0, fileBase} : C6_AsStated(u)]_vars

C6_LineTable ==
  /\ [](/\ Len(lines) >= 1
        /\ LinesIncreasing
        /\ phase # "new" => LineStart(lines, 1) = fileStart)
  /\ [][IF Running("newline")
          THEN /\ Len(lines') = Len(lines) + 1
               /\ SubSeq(lines', 1, Len(lines)) = lines
               /\ lines'[Len(lines')] = p
               /\ p' = p + 1
               /\ LineStart(lines', Len(lines')) = p'
          ELSE lines' = lines]_vars

C6_Witness == Finished /\ Len(lines) >= 4


(***************************************************************************)
(* C3: after synthesis every child's span lies within its parent's span;   *)
(* a function declaration does not start after its receiver or its name;   *)
(* the root's [FileStart, FileEnd] encloses every assigned position.       *)
(* Spans are Pos() and End() of go/ast.  Documentation comments are not    *)
(* counted as children (go/ast puts them before the Pos() of their owner), *)
(* and a child without a position has no span to compare.                  *)
(***************************************************************************)
Valid(pos) == pos # NoPos

Last(s) == s[Len(s)]

RECURSIVE StartOf(_, _), EndOf(_, _)
\* Node.Pos()
StartOf(n, at) ==
  LET pos(f) == posn[<<at, f>>]
      sub(f) == StartOf(n[f], Append(at, f))
      first(f) == StartOf(n[f][1], at \o <<f, "1">>)
  IN  CASE n.kind = "nil"          -> NoPos
        [] n.kind = "Comment"      -> pos("Slash")
        [] n.kind = "CommentGroup" -> first("List")
        [] n.kind = "Ident"        -> pos("NamePos")
        [] n.kind = "BasicLit"     -> pos("ValuePos")
        [] n.kind = "CompositeLit" ->
             IF ~IsNil(n.Type) THEN sub("Type") ELSE pos("Lbrace")
        [] n.kind = "KeyValueExpr" -> sub("Key")
        [] n.kind = "CallExpr"     -> sub("Fun")
        [] n.kind = "StarExpr"     -> pos("Star")
        [] n.kind = "ChanType"     -> pos("Begin")
        [] n.kind = "Field"        ->
             IF Len(n.Names) > 0 THEN first("Names")
             ELSE IF ~IsNil(n.Type) THEN sub("Type") ELSE NoPos
        [] n.kind = "FieldList"    ->
             IF Valid(pos("Opening")) THEN pos("Opening")
             ELSE IF Len(n.List) > 0 THEN first("List") ELSE NoPos
        [] n.kind = "StructType"   -> pos("Struct")
        [] n.kind = "FuncType"     ->
             IF Valid(pos("Func")) \/ IsNil(n.Params) THEN pos("Func")
             ELSE sub("Params")
        [] n.kind = "BlockStmt"    -> pos("Lbrace")
        [] n.kind = "ExprStmt"     -> sub("X")
        [] n.kind = "EmptyStmt"    -> pos("Semicolon")
        [] n.kind = "AssignStmt"   -> first("Lhs")
        [] n.kind = "ValueSpec"    -> first("Names")
        [] n.kind = "TypeSpec"     -> sub("Name")
        [] n.kind = "ImportSpec"   ->
             IF ~IsNil(n.Name) THEN sub("Name") ELSE sub("Path")
        [] n.kind = "GenDecl"      -> pos("TokPos")
        [] n.kind = "FuncDecl"     -> sub("Type")
        [] n.kind = "File"         -> pos("Package")

\* Node.End()
EndOf(n, at) ==
  LET pos(f) == posn[<<at, f>>]
      sub(f) == EndOf(n[f], Append(at, f))
      last(f) == EndOf(Last(n[f]), at \o <<f, ToString(Len(n[f]))>>)
  IN  CASE n.kind = "nil"          -> NoPos
        [] n.kind = "Comment"      -> pos("Slash") + Len(n.Text)
        [] n.kind = "CommentGroup" -> last("List")
        [] n.kind = "Ident"        -> pos("NamePos") + Len(n.Name)
        [] n.kind = "BasicLit"     -> pos("ValuePos") + Len(n.Value)
        [] n.kind = "CompositeLit" -> pos("Rbrace") + 1
        [] n.kind = "KeyValueExpr" -> sub("Value")
        [] n.kind = "CallExpr"     -> pos("Rparen") + 1
        [] n.kind = "StarExpr"     -> sub("X")
        [] n.kind = "ChanType"     -> sub("Value")
        [] n.kind = "Field"        ->
             IF ~IsNil(n.Type) THEN sub("Type")
             ELSE IF Len(n.Names) > 0 THEN last("Names") ELSE NoPos
        [] n.kind = "FieldList"    ->
             IF Valid(pos("Closing")) THEN pos("Closing") + 1
             ELSE IF Len(n.List) > 0 THEN last("List") ELSE NoPos
        [] n.kind = "StructType"   -> sub("Fields")
        [] n.kind = "FuncType"     ->
             IF ~IsNil(n.Results) THEN sub("Results") ELSE sub("Params")
        [] n.kind = "BlockStmt"    ->
             IF Valid(pos("Rbrace")) THEN pos("Rbrace") + 1
             ELSE IF Len(n.List) > 0 THEN last("List") ELSE pos("Lbrace") + 1
        [] n.kind = "ExprStmt"     -> sub("X")
        [] n.kind = "EmptyStmt"    ->
             IF n.Implicit THEN pos("Semicolon") ELSE pos("Semicolon") + 1
        [] n.kind = "AssignStmt"   -> last("Rhs")
        [] n.kind = "ValueSpec"    ->
             IF Len(n.Values) > 0 THEN last("Values")
             ELSE IF ~IsNil(n.Type) THEN sub("Type") ELSE last("Names")
        [] n.kind = "TypeSpec"     -> sub("Type")
        [] n.kind = "ImportSpec"   ->
             IF pos("EndPos") # 0 THEN pos("EndPos") ELSE sub("Path")
        [] n.kind = "GenDecl"      ->
             IF Valid(pos("Rparen")) THEN pos("Rparen") + 1
             ELSE EndOf(n.Specs[1], at \o <<"Specs", "1">>)
        [] n.kind = "FuncDecl"     ->
             IF ~IsNil(n.Body) THEN sub("Body") ELSE sub("Type")
        [] n.kind = "File"         ->
             IF Len(n.Decls) > 0 THEN last("Decls") ELSE sub("Name")

\* The syntactic children of a node: its children but the comments.
SyntaxKids(x) ==
  {c \in Range(Kids(x.n, x.at)) : c.n.kind # "CommentGroup"}

Encloses(x, c) ==
  LET from == IF x.at = <<>> THEN fileStart ELSE StartOf(x.n, x.at)
      to   == IF x.at = <<>> THEN fileEnd ELSE EndOf(x.n, x.at)
  IN  (Valid(StartOf(c.n, c.at)) /\ Valid(EndOf(c.n, c.at))) =>
        /\ from <= StartOf(c.n, c.at)
        /\ StartOf(c.n, c.at) <= EndOf(c.n, c.at)
        /\ EndOf(c.n, c.at) <= to

FuncDeclStartsFirst(x) ==
  x.n.kind = "FuncDecl" =>
    /\ ~IsNil(x.n.Recv) /\ Valid(StartOf(x.n.Recv, Append(x.at, "Recv")))
         => StartOf(x.n, x.at) <= StartOf(x.n.Recv, Append(x.at, "Recv"))
    /\ StartOf(x.n, x.at) <= StartOf(x.n.Name, Append(x.at, "Name"))

C3_SpansNested ==
  Finished =>
    /\ \A x \in AllNodes :
         /\ x.n.kind \notin {"CommentGroup", "Comment"} =>
              \A c \in SyntaxKids(x) : Encloses(x, c)
         /\ FuncDeclStartsFirst(x)
    /\ \A k \in DOMAIN posn :
         Valid(posn[k]) => fileStart <= posn[k] /\ posn[k] <= fileEnd


(***************************************************************************)
(* Composite literals in a finished run.                                   *)
(***************************************************************************)
Lits == {x \in AllNodes : x.n.kind = "CompositeLit"}

Lb(x) == posn[<<x.at, "Lbrace">>]
Rb(x) == posn[<<x.at, "Rbrace">>]

EltAt(x, i) == x.at \o <<"Elts", ToString(i)>>

\* The position where element i of the literal begins.
EltStart(x, i) == StartOf(x.n.Elts[i], EltAt(x, i))

\* The recorded line starts in (a, b].
LineStartsIn(a, b) == {L \in LineStarts : a < L /\ L <= b}

Flat(n) == \A i \in DOMAIN n.Elts : n.Elts[i].kind = "BasicLit"

IsKeyValue(e) == e.kind = "KeyValueExpr"

\* Some element is a literal, or a key-value pair whose value is a literal.
NestsLiteral(n) ==
  \E i \in DOMAIN n.Elts :
    \/ n.Elts[i].kind = "CompositeLit"
    \/ IsKeyValue(n.Elts[i]) /\ n.Elts[i].Value.kind = "CompositeLit"

\* A line start is recorded between elements i and i+1.
Separated(x, i) == LineStartsIn(EltStart(x, i), EltStart(x, i + 1)) # {}

(***************************************************************************)
(* C7: a literal of exactly 3 flat scalars has no line start between its   *)
(* delimiters.  As stated, with 4 or more flat scalars, and in any literal *)
(* with a nested literal element, a line start separates every two         *)
(* consecutive elements.  The code records line starts only after the      *)
(* opening delimiter, before the closing delimiter and after an element    *)
(* that is a literal or a key-value pair: scalars stay on one line.        *)
(***************************************************************************)
C7_Original ==
  Finished =>
    \A x \in Lits :
      /\ (Flat(x.n) /\ Len(x.n.Elts) = 3) => LineStartsIn(Lb(x), Rb(x)) = {}
      /\ ((Flat(x.n) /\ Len(x.n.Elts) >= 4) \/ NestsLiteral(x.n)) =>
           \A i \in 1..(Len(x.n.Elts) - 1) : Separated(x, i)

C7_LiteralLines ==
  Finished =>
    \A x \in Lits :
      /\ (Flat(x.n) /\ Len(x.n.Elts) = 3) => LineStartsIn(Lb(x), Rb(x)) = {}
      /\ (Flat(x.n) /\ Len(x.n.Elts) >= 4) =>
           LineStartsIn(Lb(x), Rb(x)) = {EltStart(x, 1), Rb(x)}
      /\ NestsLiteral(x.n) =>
           /\ EltStart(x, 1) \in LineStarts
           /\ Rb(x) \in LineStarts
           /\ \A i \in 1..(Len(x.n.Elts) - 1) :
                Separated(x, i) <=> x.n.Elts[i].kind # "BasicLit"

C7_Witness ==
  /\ Finished
  /\ \E x \in Lits :
       /\ Flat(x.n) /\ Len(x.n.Elts) = 4
       /\ Cardinality(LineStartsIn(Lb(x), Rb(x))) = 2

(***************************************************************************)
(* C8: a newline is recorded after the opening delimiter and one before    *)
(* the closing delimiter of a literal if and only if, as stated, an        *)
(* element nests a literal, or there are >= 4 elements, or more than one   *)
(* element is a key-value pair with a non-literal value.  In the code the  *)
(* last case is: some element is a key-value pair and the literal does not *)
(* have exactly one element.                                               *)
(***************************************************************************)
NewlineAfterOpen(x) ==
  LET e == EventOf(x.at, "Lbrace")
  IN  IsLineEvent(e + 1) /\ log[e + 1].val = Lb(x) + 1

NewlineBeforeClose(x) ==
  LET e == EventOf(x.at, "Rbrace")
  IN  IsLineEvent(e - 1) /\ log[e - 1].val = Rb(x) - 1

ScalarKeyValues(n) ==
  {i \in DOMAIN n.Elts :
     IsKeyValue(n.Elts[i]) /\ n.Elts[i].Value.kind # "CompositeLit"}

C8_Stated(n) ==
  NestsLiteral(n) \/ Len(n.Elts) >= 4 \/ Cardinality(ScalarKeyValues(n)) > 1

C8_Amended(n) ==
  \/ NestsLiteral(n)
  \/ Len(n.Elts) >= 4
  \/ Len(n.Elts) # 1 /\ \E i \in DOMAIN n.Elts : IsKeyValue(n.Elts[i])

C8_Original ==
  Finished =>
    \A x \in Lits :
      /\ NewlineAfterOpen(x) <=> C8_Stated(x.n)
      /\ NewlineBeforeClose(x) <=> C8_Stated(x.n)

C8_DelimiterNewlines ==
  Finished =>
    \A x \in Lits :
      /\ NewlineAfterOpen(x) <=> C8_Amended(x.n)
      /\ NewlineBeforeClose(x) <=> C8_Amended(x.n)

\* two elements, one of them a key-value pair: both newlines are recorded
C8_Witness ==
  /\ Finished
  /\ \E x \in Lits :
       /\ Len(x.n.Elts) = 2
       /\ Cardinality(ScalarKeyValues(x.n)) = 1
       /\ ~NestsLiteral(x.n)
       /\ NewlineAfterOpen(x) /\ NewlineBeforeClose(x)

(***************************************************************************)
(* C9: as stated, a newline directly follows the closing delimiter of a    *)
(* literal if and only if it has >= 4 elements or is an element of a list  *)
(* with at least one other element.  The code tests "listSize() > 0" on    *)
(* the innermost list under traversal, which inside a file is never empty  *)
(* (at the outermost it is the declaration list): every literal gets the   *)
(* newline, a sole element too.                                            *)
(***************************************************************************)
TrailingNewlineAt(x) ==
  LET e == EventOf(x.at, "Rbrace")
  IN  IsLineEvent(e + 1) /\ log[e + 1].val = Rb(x) + 1

IsIndex(step) == step \in {ToString(i) : i \in 1..(MaxElts + MaxFields + 4)}

\* The size of the list the node at path at is an element of (0: of none).
SiblingCount(at) ==
  IF Len(at) >= 2 /\ IsIndex(at[Len(at)])
    THEN Len(NodeAt(SubSeq(at, 1, Len(at) - 2))[at[Len(at) - 1]])
    ELSE 0

C9_Original ==
  Finished =>
    \A x \in Lits :
      TrailingNewlineAt(x) <=> (Len(x.n.Elts) >= 4 \/ SiblingCount(x.at) >= 2)

C9_TrailingNewline ==
  /\ (Running("if") /\ Top.cond.c = "trailing") => listSize >= 1
  /\ Finished => \A x \in Lits : TrailingNewlineAt(x)

\* a short literal that is the only element of its list, or in no list
C9_Witness ==
  /\ Finished
  /\ \E x \in Lits :
       /\ Len(x.n.Elts) < 4
       /\ SiblingCount(x.at) <= 1
       /\ TrailingNewlineAt(x)

(***************************************************************************)
(* C10: the field list of a struct type, when it has delimiters, gets      *)
(* exactly one newline right after the opening and exactly two right after *)
(* the closing delimiter, also when a field is itself of struct type; any  *)
(* other field list gets none; aggregate mode is off after the run.        *)
(***************************************************************************)
\* Exactly k newlines are recorded directly after event e.
NewlinesAfter(e, k) ==
  /\ \A j \in 1..k : IsLineEvent(e + j)
  /\ ~IsLineEvent(e + k + 1)

FieldLists == {x \in AllNodes : x.n.kind = "FieldList"}

HasDelimiters(x) == x.n.Opening # NoPos /\ x.n.Closing # NoPos

\* The field list is the Fields of a struct type.
OfStruct(x) ==
  /\ Len(x.at) >= 1 /\ x.at[Len(x.at)] = "Fields"
  /\ NodeAt(SubSeq(x.at, 1, Len(x.at) - 1)).kind = "StructType"

C10_StructLayout ==
  Finished =>
    /\ \A x \in FieldLists :
         HasDelimiters(x) =>
           IF OfStruct(x)
             THEN /\ NewlinesAfter(EventOf(x.at, "Opening"), 1)
                  /\ NewlinesAfter(EventOf(x.at, "Closing"), 2)
             ELSE /\ NewlinesAfter(EventOf(x.at, "Opening"), 0)
                  /\ NewlinesAfter(EventOf(x.at, "Closing"), 0)
    /\ ~inStruct

(***************************************************************************)
(* The list-context stack during a run.                                    *)
(***************************************************************************)
\* The 0-based index a path step names.
IndexOf(step) ==
  (CHOOSE i \in 1..(MaxElts + MaxFields + 4) : ToString(i) = step) - 1

\* The path names an element of a list of syntax nodes (comment lines of a
\* documentation group are not counted as a sibling list here).
IsListChild(at) ==
  /\ Len(at) >= 2
  /\ IsIndex(at[Len(at)])
  /\ \A j \in DOMAIN at : at[j] # "Doc"

\* The visit of an element of a sibling list is about to start (so no list
\* inside the element is open yet).
VisitingListChild ==
  Running("traverse") /\ IsListChild(Top.at)

\* The pending ends of traverseList calls, innermost first.
PendingPops == SelectSeq(stack, LAMBDA t : t.op = "listPop")

\* The frames on the stack are exactly the lists whose traversal has begun
\* and not ended, in nesting order.
FramesMatchOpenLists ==
  /\ Len(listSizeStack) = Len(listIndexStack)
  /\ LET open == PendingPops
     IN  /\ Len(open) = Len(listSizeStack)
         /\ \A j \in DOMAIN open : open[j].i = Len(listSizeStack) - j + 1

\* An absent child changes nothing but the position in the run.
NilChildNoEffect ==
  (Running("traverse") /\ IsNil(Top.n)) =>
     UNCHANGED <<firstRun, root, posn, p, lines, listSizeStack, listIndexStack, inStruct,
                 comments, fileStart, fileEnd, rootComments, log>>

\* C11: the list-context stack follows a push/iterate/pop discipline for
\* every sibling list at any depth: when the visit of the k-th child
\* (0-based) of a list of size n starts, the top frame is {size n, index k};
\* absent children have no effect but are counted by the index, so the index
\* equals the size when the list ends; the frames are exactly the open lists
\* and a list's end leaves the stack as it was before the list; the stack is
\* empty when the run ends, and listSize() and index() are -1 outside any
\* list.
C11_ListDiscipline ==
  /\ [](/\ VisitingListChild =>
             /\ listSize = SiblingCount(Top.at)
             /\ index = IndexOf(Top.at[Len(Top.at)])
        /\ Running("listPop") => index = listSize
        /\ FramesMatchOpenLists
        /\ (PendingPops = <<>>) => (listSize = -1 /\ index = -1)
        /\ Finished => (listSizeStack = <<>> /\ listIndexStack = <<>>))
  /\ [][NilChildNoEffect]_vars

(***************************************************************************)
(* A second call of RewritePositions on the tree the first call returned.  *)
(***************************************************************************)
\* The second call has returned.
SecondRunDone == Finished /\ firstRun.ran

\* The position fields that are assigned only if they were set on input.
OptionalFields ==
  {"Opening", "Closing", "Lparen", "Rparen", "Ellipsis", "Assign", "Arrow"}

\* C12: RewritePositions is idempotent on its own output: a second call with
\* a fresh positioner on the tree the first call positioned assigns the same
\* fields the same values in the same order, leaves every optional field
\* that the first call left unset unset, and ends with the same line table,
\* the same comment list and the same FileStart and FileEnd.
C12_Idempotent ==
  SecondRunDone =>
    /\ posn = firstRun.posn
    /\ log = firstRun.log
    /\ \A k \in DOMAIN posn :
         (k[2] \in OptionalFields /\ firstRun.posn[k] = NoPos) => posn[k] = NoPos
    /\ lines = firstRun.lines
    /\ rootComments = firstRun.comments
    /\ fileStart = firstRun.fileStart
    /\ fileEnd = firstRun.fileEnd

\* The second call has returned on a tree where a rule branched on input
\* positions both times: a parenthesized declaration of a channel whose
\* arrow comes first.
C12_Witness ==
  /\ SecondRunDone
  /\ Len(lines) > 1
  /\ \E x \in AllNodes :
       /\ x.n.kind = "ChanType"
       /\ posn[<<x.at, "Arrow">>] # NoPos
       /\ posn[<<x.at, "Arrow">>] = posn[<<x.at, "Begin">>]
  /\ \E y \in AllNodes :
       y.n.kind = "GenDecl" /\ posn[<<y.at, "Lparen">>] # NoPos

====
